---------------------------- MODULE Spec2Model ----------------------------
(***************************************************************************)
(* A model of res/production/wind/wind.py: simulateTurbine, the wind-power *)
(* simulation of a single turbine, and its forwarding wrapper              *)
(* singleTurbine.                                                          *)
(*                                                                         *)
(* Numbers.  Wind speeds and curve powers are integers.  A loss is a       *)
(* number of hundredths (loss = 8 is the default 0.08); generated power is *)
(* kept in hundredths of a power unit, so that splev(...)*(1-loss) is the  *)
(* exact integer  value * (LossScale - loss).  A capacity factor is the    *)
(* exact fraction [num, den].                                              *)
(*                                                                         *)
(* Containers.  A numpy array is [ndim, v]: ndim = 1 with v a sequence of  *)
(* numbers, or ndim = 2 with v a sequence of rows (one row per time step,  *)
(* one column per series).  pandas objects carry index / columns / name.   *)
(***************************************************************************)
EXTENDS Integers, Sequences, FiniteSets, TLC

VARIABLES
    windspeed,       \* argument: the wind speed container
    performance,     \* argument: catalog name or list of (windspeed, power) pairs
    measuredHeight,  \* argument
    roughness,       \* argument
    alpha,           \* argument
    hubHeight,       \* argument
    loss,            \* argument, in hundredths
    pc,              \* "call" before the call, "returned" after it
    result,          \* what the call returned or raised
    fixed,           \* the fixVal calls made, in order, with their outcomes
    projectorCalls,  \* how often each windutil projector was called
    hubWindspeed,    \* the local windspeed at the spline evaluation
    powerCurve       \* the fitted spline, on the speeds it was evaluated at

vars == <<windspeed, performance, measuredHeight, roughness, alpha, hubHeight,
          loss, pc, result, fixed, projectorCalls, hubWindspeed, powerCurve>>

args == <<windspeed, performance, measuredHeight, roughness, alpha, hubHeight, loss>>

-----------------------------------------------------------------------------
(* Bounds of the model *)

MaxSpeed == 6      \* wind speeds of generated inputs are 0..MaxSpeed
MaxPower == 2      \* powers of generated curves are 0..MaxPower
MaxFactor == 2     \* a projector scales a series by 1..MaxFactor
MaxT == 2          \* time steps of generated inputs
MaxN == 2          \* series of generated inputs
Overshoot == 1     \* how far a spline value may leave the curve's power range

(* loss is counted in 1/LossScale; the default loss=0.08 is 8 *)
LossScale == 100
DefaultLoss == 8

(* scipy's splrep fits splines of degree k=3; it needs more than k points *)
SplineDegree == 3

-----------------------------------------------------------------------------
(* Generic helpers *)

Range(s) == {s[i] : i \in DOMAIN s}

RECURSIVE SeqSum(_)
SeqSum(s) == IF s = <<>> THEN 0 ELSE Head(s) + SeqSum(Tail(s))

SetMax(S) == CHOOSE x \in S : \A y \in S : y <= x
SetMin(S) == CHOOSE x \in S : \A y \in S : x <= y

NoArray == [ndim |-> 0, v |-> <<>>]
Arr1(s) == [ndim |-> 1, v |-> s]
Arr2(rows) == [ndim |-> 2, v |-> rows]

(* elementwise application over a 1-D or 2-D array *)
ArrMap(F(_), a) ==
    IF a.ndim = 1
    THEN Arr1([i \in DOMAIN a.v |-> F(a.v[i])])
    ELSE Arr2([i \in DOMAIN a.v |-> [j \in DOMAIN a.v[i] |-> F(a.v[i][j])]])

(* elementwise combination of two arrays of one shape *)
ArrZip(F(_, _), a, b) ==
    IF a.ndim = 1
    THEN Arr1([i \in DOMAIN a.v |-> F(a.v[i], b.v[i])])
    ELSE Arr2([i \in DOMAIN a.v |-> [j \in DOMAIN a.v[i] |-> F(a.v[i][j], b.v[i][j])]])

(* the values an array holds *)
ArrValues(a) ==
    IF a.ndim = 1 THEN Range(a.v)
    ELSE UNION {Range(a.v[i]) : i \in DOMAIN a.v}

(* the positions of an array: <<t>> or <<t, j>> *)
ArrPositions(a) ==
    IF a.ndim = 1 THEN {<<i>> : i \in DOMAIN a.v}
    ELSE {<<i, j>> : i \in DOMAIN a.v, j \in 1..(IF a.v = <<>> THEN 0 ELSE Len(a.v[1]))}

ArrAt(a, p) == IF a.ndim = 1 THEN a.v[p[1]] ELSE a.v[p[1]][p[2]]

(* np.column_stack of a list of equally long lists: one column per list *)
ColumnStack(lists) ==
    Arr2([t \in 1..Len(lists[1]) |-> [j \in 1..Len(lists) |-> lists[j][t]]])

-----------------------------------------------------------------------------
(* The turbine model library *)

TurbineLibrary ==
    [name \in {"Enercon_E115"} |->
        << <<0, 0>>, <<1, 0>>, <<2, 0>>, <<3, 45>>, <<4, 122>>, <<5, 326>>,
           <<6, 632>>, <<7, 1053>>, <<8, 1524>>, <<9, 2123>>, <<10, 2569>>,
           <<11, 2938>>, <<12, 3000>>, <<13, 3000>>, <<24, 3000>>, <<25, 3000>> >>]

-----------------------------------------------------------------------------
(* What a call returns or raises *)

NoValue == [type |-> "none", data |-> NoArray, index |-> <<>>, columns |-> <<>>, name |-> ""]

Raised(e) == [raised |-> e, production |-> NoValue, capacityFactor |-> NoValue]

Returned(production, capFactor) ==
    [raised |-> "none", production |-> production, capacityFactor |-> capFactor]

NoCalls == [logLaw |-> 0, powerLaw |-> 0]

-----------------------------------------------------------------------------
(* make sure we have numpy types or pandas types *)

(* The isinstance chain over the windspeed argument.  It yields the series
   count N, the flags isNumpy and isSeries, and the windspeed object the
   rest of the function works on. *)
Normalize(w) ==
    CASE w.kind = "DataFrame" ->
            [err |-> "none", isNumpy |-> FALSE, isSeries |-> FALSE,
             N |-> Len(w.data.v[1]), ws |-> w.data,
             index |-> w.index, columns |-> w.columns]
      [] w.kind = "Series" ->
            [err |-> "none", isNumpy |-> FALSE, isSeries |-> TRUE,
             N |-> 1, ws |-> w.data,
             index |-> w.index, columns |-> <<>>]
      [] w.kind = "ndarray" ->
            [err |-> "none", isNumpy |-> TRUE, isSeries |-> FALSE,
             N |-> IF w.data.ndim > 1 THEN Len(w.data.v[1]) ELSE 1, ws |-> w.data,
             index |-> <<>>, columns |-> <<>>]
      [] w.kind = "listoflists" ->  \* windspeed[0][0] succeeds
            [err |-> "none", isNumpy |-> TRUE, isSeries |-> FALSE,
             N |-> Len(w.data.v), ws |-> ColumnStack(w.data.v),
             index |-> <<>>, columns |-> <<>>]
      [] w.kind = "list" ->         \* windspeed[0][0] raises TypeError
            [err |-> "none", isNumpy |-> TRUE, isSeries |-> FALSE,
             N |-> 1, ws |-> Arr1(w.data.v),
             index |-> <<>>, columns |-> <<>>]
      [] OTHER ->
            [err |-> "UnsupportedInputKind", isNumpy |-> FALSE, isSeries |-> FALSE,
             N |-> 0, ws |-> NoArray, index |-> <<>>, columns |-> <<>>]

(* Set performance: a string is looked up in the library (a KeyError when
   absent), anything else is taken as the array of pairs, in the order given *)
SetPerformance(p) ==
    IF p.kind = "str"
    THEN IF p.name \in DOMAIN TurbineLibrary
         THEN [err |-> "none", curve |-> TurbineLibrary[p.name]]
         ELSE [err |-> "UnknownTurbine", curve |-> <<>>]
    ELSE [err |-> "none", curve |-> p.pairs]

-----------------------------------------------------------------------------
(* Convert to wind speeds at hub height *)

IsNone(val) == val.kind = "None"

PyNone == [kind |-> "None", shape |-> <<>>, vals |-> <<>>, index |-> <<>>]

(* a faulty variant: alpha is left out of the guard *)
ProjectionRequestedButAlpha(mh, hh, r, a) ==
    ~(IsNone(mh) /\ IsNone(hh) /\ IsNone(r))

(* the guard of the projection branch *)
ProjectionRequested(mh, hh, r, a) ==
    ~(IsNone(mh) /\ IsNone(hh) /\ IsNone(r) /\ IsNone(a))

(* the check of the two heights at the top of the branch *)
HeightsMissing(mh, hh) == IsNone(mh) \/ IsNone(hh)

FixOk(val) == [err |-> "none", val |-> val]
FixErr(e) == [err |-> e, val |-> PyNone]

(* a list is taken when its length is the series count *)
ListFits(val, N) == Len(val.vals) = N

(* an array is taken as it is when its shape is (N,) *)
ShapeIsN(val, N) == val.shape = <<N>>

(* a faulty variant: only the first dimension of a 2-D shape is compared *)
ShapeIsNxAny(val, N) == Len(val.shape) = 2 /\ val.shape[1] = N

(* an array of shape (N,1) is collapsed to its only column *)
ShapeIsNx1(val, N) == val.shape = <<N, 1>>

(* the label check of a pandas value against a labeled windspeed; a
   pd.Series windspeed has no attribute 'columns' *)
LabelCheck(val, norm) ==
    IF norm.isSeries THEN "AttributeError"
    ELSE IF val.index = norm.columns THEN "none"
    ELSE "LabelMismatch"

(* fixVal: make sure all types are float, pandas series, or numpy array *)
fixVal(val, norm) ==
    CASE val.kind = "scalar" ->
            FixOk([kind |-> "float", shape |-> <<>>, vals |-> val.vals, index |-> <<>>])
      [] val.kind = "list" ->
            IF ListFits(val, norm.N)
            THEN FixOk([kind |-> "ndarray", shape |-> <<Len(val.vals)>>,
                        vals |-> val.vals, index |-> <<>>])
            ELSE FixErr("ShapeMismatch")
      [] val.kind = "ndarray" ->
            IF ShapeIsN(val, norm.N) THEN FixOk(val)
            ELSE IF ShapeIsNx1(val, norm.N)
                 THEN FixOk([kind |-> "ndarray", shape |-> <<val.shape[1]>>,
                             vals |-> val.vals, index |-> <<>>])
                 ELSE FixErr("ShapeMismatch")
      [] val.kind \in {"Series", "DataFrame"} ->
            IF ~(ShapeIsN(val, norm.N) \/ ShapeIsNx1(val, norm.N))
            THEN FixErr("ShapeMismatch")
            ELSE IF norm.isNumpy
                 THEN FixOk([kind |-> "ndarray", shape |-> <<val.shape[1]>>,
                             vals |-> val.vals, index |-> <<>>])
                 ELSE LET e == LabelCheck(val, norm) IN
                      IF e # "none" THEN FixErr(e)
                      ELSE FixOk([kind |-> "Series", shape |-> <<val.shape[1]>>,
                                  vals |-> val.vals, index |-> val.index])
      [] val.kind = "None" -> FixOk(PyNone)
      [] OTHER -> FixErr("NotAppropriate")

(* the four fixVal calls in their order: the calls made up to and including
   the first one that raises *)
RECURSIVE FixAll(_, _)
FixAll(named, norm) ==
    IF named = <<>> THEN <<>>
    ELSE LET f == fixVal(Head(named).val, norm)
             rec == [name |-> Head(named).name, err |-> f.err, val |-> f.val]
         IN IF f.err # "none" THEN <<rec>>
            ELSE <<rec>> \o FixAll(Tail(named), norm)

FixOrder(mh, hh, r, a) ==
    << [name |-> "measuredHeight", val |-> mh], [name |-> "hubHeight", val |-> hh],
       [name |-> "roughness", val |-> r], [name |-> "alpha", val |-> a] >>

FixError(fx) == IF fx = <<>> THEN "none" ELSE fx[Len(fx)].err

(* a faulty variant: alpha is looked at first *)
ProjectionLawAlphaFirst(r, a) ==
    IF ~IsNone(a) THEN "powerLaw"
    ELSE IF ~IsNone(r) THEN "logLaw"
    ELSE "MissingProjectionLaw"

(* which projector the "do projection" chain selects *)
ProjectionLaw(r, a) ==
    IF ~IsNone(r) THEN "logLaw"
    ELSE IF ~IsNone(a) THEN "powerLaw"
    ELSE "MissingProjectionLaw"

(* the value a fixed parameter has for series j: a float applies to all *)
ParamAt(val, j) == IF val.kind = "float" THEN val.vals[1] ELSE val.vals[j]

(* The factors by which a projector may scale each of the N series.  Both
   profile laws scale a speed by a factor that the two heights and the law's
   parameter determine, and that is 1 when the two heights are equal. *)
ProjectionFactors(N, mh, hh) ==
    {f \in [1..N -> 1..MaxFactor] :
        \A j \in 1..N : ParamAt(mh, j) = ParamAt(hh, j) => f[j] = 1}

ScaleSeries(ws, f) ==
    IF ws.ndim = 1
    THEN Arr1([i \in DOMAIN ws.v |-> ws.v[i] * f[1]])
    ELSE Arr2([i \in DOMAIN ws.v |-> [j \in DOMAIN ws.v[i] |-> ws.v[i][j] * f[j]]])

(* windutil.projectByLogLaw: the windspeed object with its values projected;
   shape, index and columns are those of its argument *)
projectByLogLaw(norm, f) == [norm EXCEPT !.ws = ScaleSeries(norm.ws, f)]

(* windutil.projectByPowerLaw: likewise *)
projectByPowerLaw(norm, f) == [norm EXCEPT !.ws = ScaleSeries(norm.ws, f)]

-----------------------------------------------------------------------------
(* map wind speeds to power curve using a spline *)

CurveSpeeds(curve) == {curve[i][1] : i \in DOMAIN curve}
CurvePowers(curve) == {curve[i][2] : i \in DOMAIN curve}

(* the data splrep accepts: more than k points, x ascending *)
IsAscending(curve) ==
    \A i \in 1..(Len(curve) - 1) : curve[i][1] < curve[i + 1][1]

SplrepAccepts(curve) == Len(curve) > SplineDegree /\ IsAscending(curve)

PowerAt(curve, x) == curve[CHOOSE i \in DOMAIN curve : curve[i][1] = x][2]

(* the values a spline may take between and beyond the points of a curve *)
SplineValues(curve) ==
    LET lo == SetMin(CurvePowers(curve))
        hi == SetMax(CurvePowers(curve))
    IN IF hi - lo <= MaxPower
       THEN (lo - Overshoot)..(hi + Overshoot)
       ELSE CurvePowers(curve) \cup {lo - Overshoot, hi + Overshoot}

(* splrep with its default s=0 returns the interpolating cubic spline: it
   passes through every point of the curve, and it is the constant when all
   points have one power.  Elsewhere its value is some number, the same for
   the same speed; the spline is kept on the speeds it is evaluated at. *)
splrep(curve, points) ==
    {g \in [points -> SplineValues(curve)] :
        /\ \A x \in points : x \in CurveSpeeds(curve) => g[x] = PowerAt(curve, x)
        /\ Cardinality(CurvePowers(curve)) = 1 =>
               \A x \in points : g[x] \in CurvePowers(curve)}

NoCurve == [x \in {} |-> 0]

(* a faulty variant: the loss is added instead of taken off *)
ApplyGain(p, ls) == p * (LossScale + ls)

(* splev(windspeed, powerCurve)*(1-loss), in 1/LossScale of a power unit *)
ApplyLoss(p, ls) == p * (LossScale - ls)

splev(ws, g, ls) == ArrMap(LAMBDA x : ApplyLoss(g[x], ls), ws)

-----------------------------------------------------------------------------
(* Do some "just in case" clean-up *)

MaxPowerOf(curve) == SetMax(CurvePowers(curve))  \* performance[:,1].max()
CutinOf(curve) == SetMin(CurveSpeeds(curve))     \* performance[:,0].min()
CutoutOf(curve) == SetMax(CurveSpeeds(curve))    \* performance[:,0].max()

(* powerGen[powerGen<0]=0 *)
FloorToZero(powerGen) == ArrMap(LAMBDA p : IF p < 0 THEN 0 ELSE p, powerGen)

(* powerGen[powerGen>maxPower]=maxPower *)
CeilingAtMax(powerGen, maxPower) ==
    ArrMap(LAMBDA p : IF p > maxPower * LossScale THEN maxPower * LossScale ELSE p,
           powerGen)

(* a faulty variant: the cut-in speed itself is dropped too *)
DropAtAndBeforeCutin(powerGen, ws, cutin) ==
    ArrZip(LAMBDA p, w : IF w <= cutin THEN 0 ELSE p, powerGen, ws)

(* powerGen[windspeed<cutin]=0 *)
DropBeforeCutin(powerGen, ws, cutin) ==
    ArrZip(LAMBDA p, w : IF w < cutin THEN 0 ELSE p, powerGen, ws)

(* a faulty variant: the cut-out speed itself is dropped too *)
DropAtAndAfterCutout(powerGen, ws, cutout) ==
    ArrZip(LAMBDA p, w : IF w >= cutout THEN 0 ELSE p, powerGen, ws)

(* powerGen[windspeed>cutout]=0 *)
DropAfterCutout(powerGen, ws, cutout) ==
    ArrZip(LAMBDA p, w : IF w > cutout THEN 0 ELSE p, powerGen, ws)

CleanUp(powerGen, ws, curve) ==
    DropAfterCutout(
        DropBeforeCutin(
            CeilingAtMax(FloorToZero(powerGen), MaxPowerOf(curve)),
            ws, CutinOf(curve)),
        ws, CutoutOf(curve))

-----------------------------------------------------------------------------
(* make outputs *)

Frac(n, d) == [num |-> n, den |-> d]

Column(a, j) == [i \in DOMAIN a.v |-> a.v[i][j]]

(* a faulty variant: the sum over time instead of the mean *)
SumOverMax(s, maxPower) == Frac(SeqSum(s), maxPower * LossScale)

(* mean(axis=0) of a sequence of values, divided by maxPower *)
MeanOverMax(s, maxPower) == Frac(SeqSum(s), Len(s) * maxPower * LossScale)

(* a faulty variant: the bare array whatever the input was *)
MakeBareProduction(powerGen, w) ==
    [type |-> "ndarray", data |-> powerGen, index |-> <<>>, columns |-> <<>>,
     name |-> ""]

(* the production object: the array itself, or the pandas object rebuilt
   around it from the index and columns of the windspeed object *)
MakeProduction(powerGen, w) ==
    IF w.isNumpy
    THEN [type |-> "ndarray", data |-> powerGen, index |-> <<>>, columns |-> <<>>,
          name |-> ""]
    ELSE IF w.isSeries
         THEN [type |-> "Series", data |-> powerGen, index |-> w.index,
               columns |-> <<>>, name |-> "production"]
         ELSE [type |-> "DataFrame", data |-> powerGen, index |-> w.index,
               columns |-> w.columns, name |-> ""]

(* capFactor = powerGen.mean(axis=0)/maxPower *)
CapFactor(production, maxPower) ==
    LET a == production.data IN
    IF a.ndim = 1
    THEN [type |-> "float", data |-> [ndim |-> 0, v |-> <<MeanOverMax(a.v, maxPower)>>],
          index |-> <<>>, columns |-> <<>>, name |-> ""]
    ELSE [type |-> IF production.type = "DataFrame" THEN "Series" ELSE "ndarray",
          data |-> Arr1([j \in 1..Len(a.v[1]) |-> MeanOverMax(Column(a, j), maxPower)]),
          index |-> production.columns, columns |-> <<>>, name |-> ""]

-----------------------------------------------------------------------------
(* simulateTurbine as a whole *)

Outcome(res, fx, calls, hub, g) ==
    [result |-> res, fixed |-> fx, calls |-> calls, hub |-> hub, curve |-> g]

Failure(e, fx) == Outcome(Raised(e), fx, NoCalls, NoArray, NoCurve)

(* The projection branch: the windspeed objects it may leave behind, each
   with the fixVal calls and the projector calls that were made. *)
HubHeightOutcomes(norm, mh, r, a, hh) ==
    IF ~ProjectionRequested(mh, hh, r, a)
    THEN {[err |-> "none", w |-> norm, fixed |-> <<>>, calls |-> NoCalls]}
    ELSE IF HeightsMissing(mh, hh)
    THEN {[err |-> "IncompleteProjectionParameters", w |-> norm, fixed |-> <<>>,
           calls |-> NoCalls]}
    ELSE LET fx == FixAll(FixOrder(mh, hh, r, a), norm) IN
         IF FixError(fx) # "none"
         THEN {[err |-> FixError(fx), w |-> norm, fixed |-> fx, calls |-> NoCalls]}
         ELSE LET law == ProjectionLaw(fx[3].val, fx[4].val)
                  fs == ProjectionFactors(norm.N, fx[1].val, fx[2].val)
              IN CASE law = "logLaw" ->
                        {[err |-> "none", w |-> projectByLogLaw(norm, f), fixed |-> fx,
                          calls |-> [logLaw |-> 1, powerLaw |-> 0]] : f \in fs}
                   [] law = "powerLaw" ->
                        {[err |-> "none", w |-> projectByPowerLaw(norm, f), fixed |-> fx,
                          calls |-> [logLaw |-> 0, powerLaw |-> 1]] : f \in fs}
                   [] OTHER ->
                        {[err |-> law, w |-> norm, fixed |-> fx, calls |-> NoCalls]}

(* From the spline fit to the returned pair, for one windspeed object *)
PowerOutcomes(h, curve, ls) ==
    IF ~SplrepAccepts(curve)
    THEN {Outcome(Raised("SplineInputError"), h.fixed, h.calls, h.w.ws, NoCurve)}
    ELSE {LET powerGen == CleanUp(splev(h.w.ws, g, ls), h.w.ws, curve)
              production == MakeProduction(powerGen, h.w)
          IN Outcome(Returned(production, CapFactor(production, MaxPowerOf(curve))),
                     h.fixed, h.calls, h.w.ws, g)
          : g \in splrep(curve, ArrValues(h.w.ws))}

SimulateOutcomes(w, perf, mh, r, a, hh, ls) ==
    LET norm == Normalize(w) IN
    IF norm.err # "none" THEN {Failure(norm.err, <<>>)}
    ELSE LET pf == SetPerformance(perf) IN
         IF pf.err # "none" THEN {Failure(pf.err, <<>>)}
         ELSE UNION {IF h.err # "none" THEN {Failure(h.err, h.fixed)}
                     ELSE PowerOutcomes(h, pf.curve, ls)
                     : h \in HubHeightOutcomes(norm, mh, r, a, hh)}

Pending == Raised("pending")

(* simulateTurbine(windspeed, performance, measuredHeight, roughness, alpha,
   hubHeight, loss) *)
simulateTurbine ==
    /\ pc = "call"
    /\ \E o \in SimulateOutcomes(windspeed, performance, measuredHeight, roughness,
                                 alpha, hubHeight, loss) :
          /\ result' = o.result
          /\ fixed' = o.fixed
          /\ projectorCalls' = o.calls
          /\ hubWindspeed' = o.hub
          /\ powerCurve' = o.curve
    /\ pc' = "returned"
    /\ UNCHANGED args

(* singleTurbine: forwards its keyword arguments to simulateTurbine *)
singleTurbine ==
    /\ pc = "call"
    /\ simulateTurbine

Next == simulateTurbine \/ singleTurbine

-----------------------------------------------------------------------------
(* Inputs *)

Speeds == 0..MaxSpeed

ListInput(s) ==
    [kind |-> "list", data |-> Arr1(s), index |-> <<>>, columns |-> <<>>, name |-> ""]

(* a list of lists: one inner list per series *)
ListOfListsInput(series) ==
    [kind |-> "listoflists", data |-> Arr2(series), index |-> <<>>, columns |-> <<>>,
     name |-> ""]

NdarrayInput(a) ==
    [kind |-> "ndarray", data |-> a, index |-> <<>>, columns |-> <<>>, name |-> ""]

SeriesInput(s, index, name) ==
    [kind |-> "Series", data |-> Arr1(s), index |-> index, columns |-> <<>>,
     name |-> name]

DataFrameInput(rows, index, columns) ==
    [kind |-> "DataFrame", data |-> Arr2(rows), index |-> index, columns |-> columns,
     name |-> ""]

OtherInput ==
    [kind |-> "other", data |-> NoArray, index |-> <<>>, columns |-> <<>>, name |-> ""]

Named(n) == [kind |-> "str", name |-> n, pairs |-> <<>>]
Pairs(c) == [kind |-> "list", name |-> "", pairs |-> c]

Scalar(x) == [kind |-> "scalar", shape |-> <<>>, vals |-> <<x>>, index |-> <<>>]
PyList(v) == [kind |-> "list", shape |-> <<Len(v)>>, vals |-> v, index |-> <<>>]

InitWith(W, P, MH, R, A, HH, L) ==
    /\ windspeed \in W
    /\ performance \in P
    /\ measuredHeight \in MH
    /\ roughness \in R
    /\ alpha \in A
    /\ hubHeight \in HH
    /\ loss \in L
    /\ pc = "call"
    /\ result = Pending
    /\ fixed = <<>>
    /\ projectorCalls = NoCalls
    /\ hubWindspeed = NoArray
    /\ powerCurve = NoCurve

(* curves over four ascending speeds, with every choice of powers that has
   a positive maximum *)
KnotSpeeds == <<1, 2, 4, 5>>

Curves ==
    {[i \in 1..Len(KnotSpeeds) |-> <<KnotSpeeds[i], y[i]>>] :
        y \in {z \in [1..Len(KnotSpeeds) -> 0..MaxPower] : \E i \in DOMAIN z : z[i] > 0}}

Losses == {0 - 25, 0, DefaultLoss, 50, LossScale, LossScale + 25}

(* Clipping: one speed, every curve, every loss, with and without a
   projection by one scalar factor *)
Init ==
    \E projecting \in BOOLEAN :
        InitWith({ListInput(<<v>>) : v \in Speeds},
                 {Pairs(c) : c \in Curves},
                 IF projecting THEN {Scalar(10)} ELSE {PyNone},
                 IF projecting THEN {Scalar(1)} ELSE {PyNone},
                 {PyNone},
                 IF projecting THEN {Scalar(10), Scalar(50)} ELSE {PyNone},
                 Losses)

Spec == Init /\ [][Next]_vars

(* Output assembly: every container kind, up to MaxT time steps and MaxN
   series, two curves, with and without a power-law projection that may
   scale the first series *)
SeriesNames == {"a", "production"}
TableSpeeds == {1, 2}

Matrices(T, N) == [1..T -> [1..N -> TableSpeeds]]
TimeIndexes(T) == {[t \in 1..T |-> base + t] : base \in {0, 10}}
LabelSeq == <<"a", "b", "c", "d">>
ColumnOrders(N) == {[j \in 1..N |-> LabelSeq[j]], [j \in 1..N |-> LabelSeq[N + 1 - j]]}

Containers ==
    UNION {
        {ListInput(s) : s \in [1..T -> TableSpeeds]}
        \cup {NdarrayInput(Arr1(s)) : s \in [1..T -> TableSpeeds]}
        \cup {SeriesInput(s, ix, n) :
                 s \in [1..T -> TableSpeeds], ix \in TimeIndexes(T), n \in SeriesNames}
        \cup UNION {
                {ListOfListsInput(m) : m \in Matrices(N, T)}
                \cup {NdarrayInput(Arr2(m)) : m \in Matrices(T, N)}
                \cup {DataFrameInput(m, ix, c) :
                         m \in Matrices(T, N), ix \in TimeIndexes(T), c \in ColumnOrders(N)}
                : N \in 1..MaxN}
        : T \in 1..MaxT}

TableCurves ==
    { << <<1, 1>>, <<2, 2>>, <<3, 0>>, <<4, 1>>, <<6, 2>> >>,
      << <<1, 0>>, <<2, 1>>, <<3, 1>>, <<4, 2>>, <<6, 2>> >> }

InitTable ==
    \E projecting \in BOOLEAN :
        InitWith(Containers,
                 {Pairs(c) : c \in TableCurves},
                 IF projecting THEN {Scalar(10)} ELSE {PyNone},
                 {PyNone},
                 IF projecting THEN {Scalar(1)} ELSE {PyNone},
                 IF projecting
                 THEN {PyList([j \in 1..n |-> IF j = 1 THEN 50 ELSE 10]) : n \in 1..MaxN}
                 ELSE {PyNone},
                 {0, DefaultLoss})

SpecTable == InitTable /\ [][Next]_vars

(* Projection parameters: one parameter takes every kind and shape, the
   other three a few; one time step of wind speeds in every container kind *)
Heights == {10, 50}
ParamLabels == {"a", "b"}

Ndarray(sh, v) == [kind |-> "ndarray", shape |-> sh, vals |-> v, index |-> <<>>]
PdSeries(v, ix) == [kind |-> "Series", shape |-> <<Len(v)>>, vals |-> v, index |-> ix]
PdDataFrame(v, c, ix) ==
    [kind |-> "DataFrame", shape |-> <<Len(v), c>>, vals |-> v, index |-> ix]
OtherParam == [kind |-> "other", shape |-> <<>>, vals |-> <<>>, index |-> <<>>]

Rows == 0..(MaxN + 1)
Const(n, h) == [i \in 1..n |-> h]

ParamValues ==
    {PyNone, OtherParam}
    \cup {Scalar(h) : h \in Heights}
    \cup {PyList(Const(n, h)) : n \in Rows, h \in Heights}
    \cup {Ndarray(<<n>>, Const(n, h)) : n \in Rows, h \in Heights}
    \cup {Ndarray(<<n, c>>, Const(n, h)) : n \in Rows, c \in 1..2, h \in Heights}
    \cup UNION {{PdSeries(Const(n, 10), ix) : ix \in [1..n -> ParamLabels]} : n \in Rows}
    \cup UNION {{PdDataFrame(Const(n, 10), c, ix) : ix \in [1..n -> ParamLabels], c \in 1..2}
                 : n \in Rows}

FewHeights == {PyNone, Scalar(10)}
FewLaws == {PyNone, Scalar(1), PyList(<<>>)}

ProjContainers ==
    {ListInput(<<3>>), SeriesInput(<<3>>, <<1>>, "a"), OtherInput}
    \cup {NdarrayInput(Arr2(<<Const(N, 3)>>)) : N \in 1..MaxN}
    \cup UNION {{DataFrameInput(<<Const(N, 3)>>, <<1>>, c) : c \in ColumnOrders(N)}
                 : N \in 1..MaxN}

InitProj ==
    \E rich \in {"measuredHeight", "hubHeight", "roughness", "alpha"} :
        InitWith(ProjContainers,
                 {Named("Enercon_E115")},
                 IF rich = "measuredHeight" THEN ParamValues ELSE FewHeights,
                 IF rich = "roughness" THEN ParamValues ELSE FewLaws,
                 IF rich = "alpha" THEN ParamValues ELSE FewLaws,
                 IF rich = "hubHeight" THEN ParamValues ELSE FewHeights,
                 {DefaultLoss})

SpecProj == InitProj /\ [][Next]_vars

(* Curve order: the points of a curve in every order *)
Orderings(c) ==
    {[i \in DOMAIN c |-> c[f[i]]] :
        f \in {g \in [DOMAIN c -> DOMAIN c] : \A i, j \in DOMAIN c : g[i] = g[j] => i = j}}

FlatCurve == [i \in 1..Len(KnotSpeeds) |-> <<KnotSpeeds[i], MaxPower>>]

InitCurve ==
    InitWith({ListInput(<<v>>) : v \in Speeds},
             {Pairs(o) : o \in UNION {Orderings(c) : c \in TableCurves \cup {FlatCurve}}},
             {PyNone}, {PyNone}, {PyNone}, {PyNone},
             {0, DefaultLoss})

SpecCurve == InitCurve /\ [][Next]_vars

(* The catalog: the speeds of the Enercon_E115 points and two others, a
   name the library has and one it has not *)
CatalogSpeeds == CurveSpeeds(TurbineLibrary["Enercon_E115"]) \cup {14, 30}

InitCatalog ==
    InitWith(UNION {{ListInput(s) : s \in [1..T -> CatalogSpeeds]} : T \in 1..MaxT},
             {Named("Enercon_E115"), Named("Vestas_V90")},
             {PyNone}, {PyNone}, {PyNone}, {PyNone},
             {0, DefaultLoss})

SpecCatalog == InitCatalog /\ [][Next]_vars

-----------------------------------------------------------------------------
(* Properties of the clean-up *)

Done == pc = "returned" /\ result.raised = "none"

TheCurve == SetPerformance(performance).curve

(* the bounds as the curve defines them *)
IsCutin(curve, x) == x \in CurveSpeeds(curve) /\ \A i \in DOMAIN curve : x <= curve[i][1]
IsCutout(curve, x) == x \in CurveSpeeds(curve) /\ \A i \in DOMAIN curve : x >= curve[i][1]
IsRated(curve, y) == y \in CurvePowers(curve) /\ \A i \in DOMAIN curve : y >= curve[i][2]

Clamp(x, lo, hi) == IF x < lo THEN lo ELSE IF x > hi THEN hi ELSE x

(* C1: every element of the production is 0 when its hub-height wind speed is
   below cut-in or above cut-out, and otherwise is interpolated(h)*(1-loss)
   clamped to [0, rated]; so it lies in [0, rated], and a speed equal to
   cut-in or cut-out is not forced to 0.  The hub-height speed is the input
   speed when no projector ran. *)
C1_ClippedProduction ==
    Done =>
        /\ projectorCalls = NoCalls => hubWindspeed = Normalize(windspeed).ws
        /\ \A p \in ArrPositions(hubWindspeed) :
              \A cutin, cutout \in CurveSpeeds(TheCurve) : \A rated \in CurvePowers(TheCurve) :
                 (IsCutin(TheCurve, cutin) /\ IsCutout(TheCurve, cutout)
                    /\ IsRated(TheCurve, rated)) =>
                 LET h == ArrAt(hubWindspeed, p)
                     prod == ArrAt(result.production.data, p)
                 IN /\ prod = IF h < cutin \/ h > cutout THEN 0
                               ELSE Clamp(powerCurve[h] * (LossScale - loss), 0,
                                          rated * LossScale)
                    /\ 0 <= prod /\ prod <= rated * LossScale

(* a projector moved an in-range input speed above cut-out, where the spline
   with the loss applied is positive, and the production there is 0 *)
C1_Witness ==
    /\ Done
    /\ projectorCalls.logLaw = 1
    /\ \E p \in ArrPositions(hubWindspeed) :
          /\ ArrAt(Normalize(windspeed).ws, p) <= CutoutOf(TheCurve)
          /\ ArrAt(Normalize(windspeed).ws, p) >= CutinOf(TheCurve)
          /\ ArrAt(hubWindspeed, p) > CutoutOf(TheCurve)
          /\ powerCurve[ArrAt(hubWindspeed, p)] * (LossScale - loss) > 0
          /\ ArrAt(result.production.data, p) = 0

(* a flat curve: every point has the same positive power *)
IsFlat(curve) == \E y \in CurvePowers(curve) : y > 0 /\ CurvePowers(curve) = {y}

FlatRule ==
    \A p \in ArrPositions(hubWindspeed) :
        LET h == ArrAt(hubWindspeed, p)
            prod == ArrAt(result.production.data, p)
        IN IF h < CutinOf(TheCurve) \/ h > CutoutOf(TheCurve)
           THEN prod = 0
           ELSE prod = MaxPowerOf(TheCurve) * (LossScale - loss)

(* C9 as stated: for a flat curve and any loss, production is 0 below cut-in
   and above cut-out and exactly rated*(1-loss) from the rated point on *)
C9_FlatAnyLoss == (Done /\ IsFlat(TheCurve)) => FlatRule

(* C9 amended: the same for every loss between 0 and 1 *)
C9_FlatLossInUnit == (Done /\ IsFlat(TheCurve) /\ 0 <= loss /\ loss <= LossScale) => FlatRule

(* a flat curve, a loss strictly between 0 and 1, and a speed inside the
   curve's range that is none of its points *)
C9_Witness ==
    /\ Done /\ IsFlat(TheCurve) /\ 0 < loss /\ loss < LossScale
    /\ \E p \in ArrPositions(hubWindspeed) :
          /\ ArrAt(hubWindspeed, p) > CutinOf(TheCurve)
          /\ ArrAt(hubWindspeed, p) < CutoutOf(TheCurve)
          /\ ArrAt(hubWindspeed, p) \notin CurveSpeeds(TheCurve)
          /\ ArrAt(result.production.data, p) = MaxPowerOf(TheCurve) * (LossScale - loss)

-----------------------------------------------------------------------------
(* Properties of the outputs *)

InputArray == Normalize(windspeed).ws

SeriesCount(a) == IF a.ndim = 1 THEN 1 ELSE Len(a.v[1])
SeriesOf(a, j) == IF a.ndim = 1 THEN a.v ELSE Column(a, j)

(* C2: the capacity factor holds one value per series, and each is the mean
   over time of that series' returned production divided by rated power *)
C2_CapacityFactor ==
    Done =>
        LET prod == result.production.data
            cf == result.capacityFactor.data.v
        IN /\ Len(cf) = SeriesCount(InputArray)
           /\ \A j \in 1..SeriesCount(prod) : \A rated \in CurvePowers(TheCurve) :
                 IsRated(TheCurve, rated) =>
                    /\ cf[j].den > 0
                    /\ cf[j].num * (Len(SeriesOf(prod, j)) * rated * LossScale)
                         = cf[j].den * SeqSum(SeriesOf(prod, j))

(* two series over two time steps whose returned productions have different
   positive means *)
C2_Witness ==
    /\ Done
    /\ result.production.data.ndim = 2
    /\ Len(result.production.data.v) = 2
    /\ Len(result.capacityFactor.data.v) = 2
    /\ result.capacityFactor.data.v[1].num > result.capacityFactor.data.v[2].num
    /\ result.capacityFactor.data.v[2].num > 0
    /\ result.production.data.v[1] # result.production.data.v[2]

Unlabeled(x) == x.type = "ndarray" /\ x.index = <<>> /\ x.columns = <<>>

SameShape(a, b) ==
    /\ a.ndim = b.ndim
    /\ Len(a.v) = Len(b.v)
    /\ a.ndim = 2 => \A i \in DOMAIN a.v : Len(a.v[i]) = Len(b.v[i])

UnlabeledRule ==
    /\ windspeed.kind \in {"list", "ndarray"} =>
          /\ Unlabeled(result.production)
          /\ SameShape(result.production.data, windspeed.data)
    /\ windspeed.kind = "listoflists" =>
          /\ Unlabeled(result.production)
          /\ result.production.data.ndim = 2
          /\ SeriesCount(result.production.data) = Len(windspeed.data.v)
          /\ Len(result.production.data.v) = Len(windspeed.data.v[1])

TableRule ==
    windspeed.kind = "DataFrame" =>
        /\ result.production.type = "DataFrame"
        /\ result.production.index = windspeed.index
        /\ result.production.columns = windspeed.columns
        /\ SameShape(result.production.data, windspeed.data)

(* C8 as stated: the production has the caller's convention; a labeled input
   gives a labeled result with the input's index and series labels *)
C8_InputConvention ==
    Done =>
        /\ UnlabeledRule
        /\ TableRule
        /\ windspeed.kind = "Series" =>
              /\ result.production.type = "Series"
              /\ result.production.index = windspeed.index
              /\ result.production.name = windspeed.name
              /\ SameShape(result.production.data, windspeed.data)

(* C8 amended: a labeled single series comes back with the input's index
   under the name "production" *)
C8_ConventionNamedProduction ==
    Done =>
        /\ UnlabeledRule
        /\ TableRule
        /\ windspeed.kind = "Series" =>
              /\ result.production.type = "Series"
              /\ result.production.index = windspeed.index
              /\ result.production.name = "production"
              /\ SameShape(result.production.data, windspeed.data)

(* a labeled table of two series whose values a projector replaced *)
C8_Witness ==
    /\ Done
    /\ windspeed.kind = "DataFrame"
    /\ projectorCalls.powerLaw = 1
    /\ hubWindspeed # windspeed.data
    /\ Len(windspeed.columns) = 2
    /\ result.production.columns = windspeed.columns
    /\ result.production.index = windspeed.index

-----------------------------------------------------------------------------
(* Properties of the projection *)

HasReturned == pc = "returned"

(* the call got past the windspeed and performance arguments *)
Entered ==
    /\ pc = "returned"
    /\ Normalize(windspeed).err = "none"
    /\ SetPerformance(performance).err = "none"

NothingDone ==
    /\ fixed = <<>>
    /\ projectorCalls = NoCalls
    /\ powerCurve = NoCurve
    /\ result.production = NoValue
    /\ result.capacityFactor = NoValue

Broadcast == Len(fixed) = 4 /\ \A k \in 1..4 : fixed[k].err = "none"

(* C3: with both heights supplied (and all four parameters broadcast): a
   non-null roughness means one log-law projection and no power-law one, also
   when alpha is supplied too, and the call is not rejected; a null roughness
   with a non-null alpha means one power-law projection; both null makes the
   call fail with MissingProjectionLaw and return nothing *)
C3_ProjectionDispatch ==
    (Entered /\ ~IsNone(measuredHeight) /\ ~IsNone(hubHeight) /\ Broadcast) =>
        /\ ~IsNone(roughness) =>
              /\ projectorCalls = [logLaw |-> 1, powerLaw |-> 0]
              /\ result.raised = "none"
        /\ (IsNone(roughness) /\ ~IsNone(alpha)) =>
              /\ projectorCalls = [logLaw |-> 0, powerLaw |-> 1]
              /\ result.raised = "none"
        /\ (IsNone(roughness) /\ IsNone(alpha)) =>
              /\ result.raised = "MissingProjectionLaw"
              /\ projectorCalls = NoCalls
              /\ result.production = NoValue

(* roughness and alpha are both supplied and the call returns a production *)
C3_Witness ==
    /\ Entered /\ Broadcast
    /\ ~IsNone(roughness) /\ ~IsNone(alpha)
    /\ projectorCalls = [logLaw |-> 1, powerLaw |-> 0]
    /\ result.raised = "none"

(* C4: with all four parameters null no projector is called and the
   production is computed from the input speeds; with one of them non-null
   and a height null the call fails with IncompleteProjectionParameters
   before any broadcasting, projection or interpolation *)
C4_ProjectionActivation ==
    Entered =>
        /\ (IsNone(measuredHeight) /\ IsNone(hubHeight) /\ IsNone(roughness)
              /\ IsNone(alpha)) =>
              /\ projectorCalls = NoCalls
              /\ fixed = <<>>
              /\ hubWindspeed = InputArray
              /\ result.raised = "none"
        /\ (~(IsNone(measuredHeight) /\ IsNone(hubHeight) /\ IsNone(roughness)
                /\ IsNone(alpha))
              /\ (IsNone(measuredHeight) \/ IsNone(hubHeight))) =>
              /\ result.raised = "IncompleteProjectionParameters"
              /\ NothingDone

(* only alpha is supplied, and it has no acceptable shape *)
C4_Witness ==
    /\ Entered
    /\ IsNone(measuredHeight) /\ IsNone(hubHeight) /\ IsNone(roughness)
    /\ alpha.kind = "ndarray" /\ alpha.shape # <<Normalize(windspeed).N>>
    /\ alpha.shape # <<Normalize(windspeed).N, 1>>
    /\ result.raised = "IncompleteProjectionParameters"

Argument(name) ==
    CASE name = "measuredHeight" -> measuredHeight
      [] name = "hubHeight" -> hubHeight
      [] name = "roughness" -> roughness
      [] OTHER -> alpha

IsLabeled(x) == x.kind \in {"Series", "DataFrame"}

(* the series labels of a labeled windspeed input *)
SeriesLabels(w) == IF w.kind = "DataFrame" THEN w.columns ELSE <<w.name>>

HasOneValuePerSeries(v) ==
    \/ v.shape = <<Normalize(windspeed).N>>
    \/ v.shape = <<Normalize(windspeed).N, 1>>

(* C5: for a labeled windspeed input (a labeled series or a labeled table), a
   labeled parameter with one value per series is accepted when its labels
   are the series labels in their order, and makes the call fail with
   LabelMismatch otherwise *)
C5_LabelRule ==
    (HasReturned /\ IsLabeled(windspeed)) =>
        \A k \in DOMAIN fixed :
            LET v == Argument(fixed[k].name) IN
            (IsLabeled(v) /\ HasOneValuePerSeries(v)) =>
                IF v.index = SeriesLabels(windspeed)
                THEN fixed[k].err = "none"
                ELSE fixed[k].err = "LabelMismatch" /\ result.raised = "LabelMismatch"

(* C7: broadcasting a parameter for N series yields null for null, the scalar
   for a scalar, the vector for a list or array of length N or of shape
   (N,1), and ShapeMismatch for every list or array of another length or
   shape; an accepted value is a scalar or a vector of length N.  Whether a
   labeled array of the right shape is accepted is the label rule's matter. *)
C7_Broadcast ==
    HasReturned =>
        \A k \in DOMAIN fixed :
            LET v == Argument(fixed[k].name)
                N == Normalize(windspeed).N
                f == fixed[k]
            IN /\ v.kind = "None" => f.err = "none" /\ f.val.kind = "None"
               /\ v.kind = "scalar" =>
                     f.err = "none" /\ f.val.kind = "float" /\ f.val.vals = v.vals
               /\ v.kind = "list" =>
                     IF Len(v.vals) = N
                     THEN f.err = "none" /\ f.val.vals = v.vals /\ f.val.shape = <<N>>
                     ELSE f.err = "ShapeMismatch"
               /\ v.kind = "ndarray" =>
                     IF v.shape = <<N>> \/ v.shape = <<N, 1>>
                     THEN f.err = "none" /\ f.val.vals = v.vals /\ f.val.shape = <<N>>
                     ELSE f.err = "ShapeMismatch"
               /\ IsLabeled(v) =>
                     IF v.shape = <<N>> \/ v.shape = <<N, 1>>
                     THEN f.err # "ShapeMismatch"
                     ELSE f.err = "ShapeMismatch"
               /\ (f.err = "none" /\ f.val.kind # "None") =>
                     \/ f.val.kind = "float" /\ Len(f.val.vals) = 1
                     \/ f.val.shape = <<N>> /\ Len(f.val.vals) = N
               /\ f.err # "none" => result.raised = f.err /\ result.production = NoValue

(* a two-series input, an array of shape (2,1) collapsed for one parameter
   and a list of another length refused for a later one *)
C7_Witness ==
    /\ HasReturned
    /\ Normalize(windspeed).N = 2
    /\ \E k \in DOMAIN fixed :
          /\ Argument(fixed[k].name).kind = "ndarray"
          /\ Argument(fixed[k].name).shape = <<2, 1>>
          /\ fixed[k].err = "none"
          /\ fixed[k].val.shape = <<2>>
    /\ result.raised = "ShapeMismatch"

-----------------------------------------------------------------------------
(* Properties of the curve *)

(* the points of a curve by ascending windspeed *)
RECURSIVE SortByWindspeed(_)
SortByWindspeed(c) ==
    IF c = <<>> THEN <<>>
    ELSE LET m == CHOOSE i \in DOMAIN c : \A j \in DOMAIN c : c[i][1] <= c[j][1]
         IN <<c[m]>> \o SortByWindspeed([k \in 1..(Len(c) - 1) |->
                                            IF k < m THEN c[k] ELSE c[k + 1]])

(* C6: whatever the order of the pairs of the curve, the call gives a result
   that the call with the pairs in ascending order gives *)
C6_OrderIndependent ==
    (HasReturned /\ performance.kind = "list") =>
        \E o \in SimulateOutcomes(windspeed, Pairs(SortByWindspeed(performance.pairs)),
                                  measuredHeight, roughness, alpha, hubHeight, loss) :
            o.result = result

E115 == TurbineLibrary["Enercon_E115"]

(* C10: with loss 0 and no projection, the speed of each point of the
   Enercon_E115 curve gives that point's power (12 gives 3000, 2 gives 0),
   and a speed above the cut-out of 25 (30) gives 0 *)
C10_CatalogRoundTrip ==
    (Done /\ performance = Named("Enercon_E115") /\ loss = 0
       /\ projectorCalls = NoCalls) =>
        \A p \in ArrPositions(InputArray) :
            LET v == ArrAt(InputArray, p)
                prod == ArrAt(result.production.data, p)
            IN /\ \A i \in DOMAIN E115 : v = E115[i][1] => prod = E115[i][2] * LossScale
               /\ v = 12 => prod = 3000 * LossScale
               /\ v = 2 => prod = 0
               /\ v = 30 => prod = 0

(* the speeds 25 and 30 simulated together with loss 0 *)
C10_Witness ==
    /\ Done /\ performance = Named("Enercon_E115") /\ loss = 0
    /\ InputArray = Arr1(<<25, 30>>)
    /\ result.production.data = Arr1(<<3000 * LossScale, 0>>)

=============================================================================
